---------------------------- MODULE Spec2Model ----------------------------
(***************************************************************************)
(* Health tracker: the store of patients, codings, codeable concepts and   *)
(* observations, its create, read, update and delete requests, and the     *)
(* health score computation of app/services/service.py                     *)
(* (HealthTrackerService).                                                 *)
(*                                                                         *)
(* Floats are modelled as fixed-point numbers with PREC units per 1.0      *)
(* (an "fp" value v stands for v / PREC).  Settings weights are per cent.  *)
(***************************************************************************)
EXTENDS Integers, FiniteSets, Sequences, TLC

\* ---------------------------------------------------------------- bounds
MaxPatients == 2
MaxConcepts == 2
MaxObservations == 3
\* patients and observations stored in the specifications of the create,
\* read, update and delete requests
MaxCrudPatients == 1
MaxCrudObservations == 1

\* units per 1.0 of a fixed-point number: two decimals, as round(res, 2)
PREC == 100

PatientIds == 1..MaxPatients
ConceptIds == 1..MaxConcepts
ObservationIds == 1..MaxObservations

\* coding.code values (schemas.CodeType) used in payloads
Codes == {"A", "B"}
\* coding.system values used in payloads
Systems == {"s1", "s2"}
\* schemas.Coding payloads: the codings of system s1
Coding(code) == [ system |-> "s1", code |-> code ]
\* the coding lists of the CodeableConceptCreate payloads
CodingPayloads ==
    { <<Coding("A")>>, <<Coding("B")>>, <<Coding("A"), Coding("B")>> }
\* value_quantity inputs: a negative and a positive value
Values == {-1, 1}
\* instants of effective_datetime_start / effective_datetime_end
Times == {1, 2}
\* an unset optional filter bound (start / end = None)
NoTime == 0
\* (effective_datetime_start, effective_datetime_end) of created observations
Periods == {<<1, 1>>, <<2, 2>>}
\* (start, end) of the ObservationFilters of a health score request
Windows == {<<NoTime, NoTime>>, <<2, 2>>}
\* schemas.Status values used in payloads
Statuses == {"final", "amended"}

\* AppSettings as supplied by the environment: the weights read by
\* _calculate_score and the configured SERVICE_SCORE_Z_SCALING_FACTOR
SettingsChoices ==
    { [ SERVICE_SCORE_WEIGHT_OBSERVATION_COVERAGE |-> 25,
        SERVICE_SCORE_WEIGHT_VALUE_QUALITY |-> 35,
        SERVICE_SCORE_WEIGHT_CONS |-> 40,
        SERVICE_SCORE_Z_SCALING_FACTOR |-> 20 ] }

VARIABLES
    settings,      \* app.state.settings
    patients,      \* Patient id -> row (name, gender)
    codings,       \* Coding id -> row (system, code)
    concepts,      \* CodeableConcept id -> row (text) with the ids of its
                   \* codings (the codeable_concept_to_coding links)
    observations,  \* Observation id -> row, with the ids of its categories
                   \* (the codeable_concept_to_observation links)
    response,      \* outcome of the last request
    requests       \* the requests in flight: the position of each in its
                   \* handler and what it has read and written so far

vars == <<settings, patients, codings, concepts, observations, response, requests>>

\* ------------------------------------------------------- number helpers
Abs(x) == IF x < 0 THEN -x ELSE x
Max(a, b) == IF a >= b THEN a ELSE b
Min(a, b) == IF a <= b THEN a ELSE b

\* quotient of a float division a / b in fixed point, b # 0, rounded down
Quot(a, b) == IF b > 0 THEN a \div b ELSE (-a) \div (-b)

RECURSIVE SqrtSearch(_, _, _)
SqrtSearch(x, lo, hi) ==
    IF lo >= hi THEN lo
    ELSE LET mid == (lo + hi + 1) \div 2
         IN  IF mid * mid <= x THEN SqrtSearch(x, mid, hi)
             ELSE SqrtSearch(x, lo, mid - 1)

\* floor of the square root of x >= 0
ISqrt(x) == SqrtSearch(x, 0, Min(x, 46340))

\* round(x / d) to the nearest integer, ties to even, d > 0 even, x >= 0
RoundHalfEven(x, d) ==
    LET q == x \div d
        r == x % d
    IN  IF 2 * r < d THEN q
        ELSE IF 2 * r > d THEN q + 1
        ELSE IF q % 2 = 0 THEN q ELSE q + 1

RECURSIVE SumOver(_, _)
\* sum of f[o] over the finite set S
SumOver(S, f) ==
    IF S = {} THEN 0
    ELSE LET o == CHOOSE p \in S : TRUE
         IN  f[o] + SumOver(S \ {o}, f)


\* -------------------------------------------------- statistics.mean/stdev
\* a float holding the integer v
Float(v) == v * PREC

\* statistics.mean of the fp numbers f[o], o in the non-empty set S
mean(S, f) == Quot(SumOver(S, f), Cardinality(S))

\* statistics.stdev (sample standard deviation) of the fp numbers f[o],
\* o in S, for Cardinality(S) >= 2
stdev(S, f) ==
    LET n   == Cardinality(S)
        sq  == [o \in S |-> f[o] * f[o]]
        sum == SumOver(S, f)
        ss  == n * SumOver(S, sq) - sum * sum
    IN  ISqrt(ss \div (n * (n - 1)))

RECURSIVE MinOver(_, _)
MinOver(S, f) ==
    LET o == CHOOSE p \in S : TRUE
    IN  IF S = {o} THEN f[o] ELSE Min(f[o], MinOver(S \ {o}, f))

RECURSIVE MaxOver(_, _)
MaxOver(S, f) ==
    LET o == CHOOSE p \in S : TRUE
    IN  IF S = {o} THEN f[o] ELSE Max(f[o], MaxOver(S \ {o}, f))

\* ------------------------------------------------------------ the store
\* obs.value_quantity of the stored observations, as floats
value_quantity == [o \in DOMAIN observations |-> Float(observations[o].value_quantity)]

\* obs.code.coding of a stored observation: the codes of the codings of its
\* concept
coding(o) == { codings[i].code : i \in concepts[observations[o].code_id].coding }

\* no row: the pk of a response that names none
NoId == 0
\* the body of a response that carries none
NoBody == <<>>

\* the elements of a list
Range(list) == { list[i] : i \in DOMAIN list }

\* Base.id, default uuid4: an id that no row of the table has
NewId(table) ==
    CHOOSE i \in 1..(Cardinality(DOMAIN table) + 1) :
        /\ i \notin DOMAIN table
        /\ \A j \in 1..(i - 1) : j \in DOMAIN table

\* SQLAlchemyRepositoryBase.create: the table with the new row added
create(table, row) == table @@ (NewId(table) :> row)

\* SQLAlchemyRepositoryBase._use_result: the read schema of an instance
_use_result(pk, instance) == [ id |-> pk, row |-> instance ]

\* schemas.PatientRead of a stored patient
PatientRead(P, pk) == _use_result(pk, P[pk])

\* schemas.CodingRead of a stored coding
CodingRead(C, pk) == _use_result(pk, C[pk])

\* schemas.CodeableConceptRead of a stored concept, its codings loaded
CodeableConceptRead(C, CC, pk) ==
    _use_result(pk, [ text |-> CC[pk].text,
                      coding |-> { CodingRead(C, i) : i \in CC[pk].coding } ])

\* schemas.ObservationRead of a stored observation, its subject, code and
\* categories loaded
ObservationRead(P, C, CC, O, pk) ==
    _use_result(pk, [ columns |-> O[pk],
                      subject |-> PatientRead(P, O[pk].subject_id),
                      code |-> CodeableConceptRead(C, CC, O[pk].code_id),
                      category |-> { CodeableConceptRead(C, CC, c) :
                                       c \in O[pk].category_ids } ])

\* CodingRepo.create_if_not_exists: the table after the call and the id of
\* the coding that has the code of the payload
create_if_not_exists(table, payload) ==
    IF \E i \in DOMAIN table : table[i].code = payload.code
    THEN [ table |-> table,
           id |-> CHOOSE i \in DOMAIN table : table[i].code = payload.code ]
    ELSE [ table |-> create(table, payload), id |-> NewId(table) ]

\* the loop of create_codeable_concept over payload.coding: the coding table
\* after it and the coding ids of the links it made, in order
RECURSIVE create_codings(_, _, _)
create_codings(table, items, links) ==
    IF items = <<>>
    THEN [ table |-> table, links |-> links ]
    ELSE LET code_instance == create_if_not_exists(table, Head(items))
         IN  create_codings(code_instance.table, Tail(items),
                            Append(links, code_instance.id))

\* get_patient that takes every id for a stored one
get_patient_any(pk) == [error |-> "", id |-> pk]

\* PatientRepo.get: NoResultFound when no row has this id
get_patient(pk) ==
    IF pk \in DOMAIN patients
    THEN [error |-> "", id |-> pk]
    ELSE [error |-> "NoResultFound", id |-> pk]

\* _apply_filters that ignores the window
_apply_filters_subject_only(filters) ==
    { o \in DOMAIN observations :
        filters.subject_ids # {} => observations[o].subject_id \in filters.subject_ids }

\* ObservationRepo._apply_filters: subject and window filter of a select
_apply_filters(filters) ==
    { o \in DOMAIN observations :
        /\ filters.subject_ids # {} => observations[o].subject_id \in filters.subject_ids
        /\ filters.start # NoTime =>
               observations[o].effective_datetime_start >= filters.start
        /\ filters.end # NoTime =>
               observations[o].effective_datetime_end <= filters.end }

\* HealthTrackerService.get_observations
get_observations(filters) == _apply_filters(filters)

\* get_where that drops the clause
get_where_all(ids) == DOMAIN observations

\* ObservationRepo.get_where(clauses=(Observation.id.notin_(ids),))
get_where_id_notin(ids) == { o \in DOMAIN observations : o \notin ids }

\* ServiceExceptionDepends: the error the request ends with
ServiceExceptionDepends(error) ==
    IF error = "NoResultFound" THEN "HTTPNotFoundError" ELSE error

\* ------------------------------------------- health score calculation
\* _prepare_observations_values that reads one coding per observation: an
\* observation of a concept with several codings is left out
_prepare_observations_values_single(O) ==
    [ c \in { c \in Codes : \E o \in O : coding(o) = {c} } |->
        { o \in O : coding(o) = {c} } ]

\* code -> the observations of O whose value is appended to the code's list:
\* every observation once per coding of its concept
_prepare_observations_values(O) ==
    [ c \in { c \in Codes : \E o \in O : c \in coding(o) } |->
        { o \in O : c \in coding(o) } ]

\* _calculate_statistics that asks for more than two values
_calculate_statistics_over_two(O) ==
    LET observations_per_code == _prepare_observations_values(O)
    IN  [ c \in { c \in DOMAIN observations_per_code :
                    Cardinality(observations_per_code[c]) > 2 } |->
            [ code  |-> c,
              mean  |-> mean(observations_per_code[c], value_quantity),
              std   |-> stdev(observations_per_code[c], value_quantity),
              min   |-> MinOver(observations_per_code[c], value_quantity),
              max   |-> MaxOver(observations_per_code[c], value_quantity),
              count |-> Cardinality(observations_per_code[c]) ] ]

\* population statistics per code, for the codes with more than one value
_calculate_statistics(O) ==
    LET observations_per_code == _prepare_observations_values(O)
    IN  [ c \in { c \in DOMAIN observations_per_code :
                    Cardinality(observations_per_code[c]) > 1 } |->
            [ code  |-> c,
              mean  |-> mean(observations_per_code[c], value_quantity),
              std   |-> stdev(observations_per_code[c], value_quantity),
              min   |-> MinOver(observations_per_code[c], value_quantity),
              max   |-> MaxOver(observations_per_code[c], value_quantity),
              count |-> Cardinality(observations_per_code[c]) ] ]

\* avg_value of a code in _calculate_metrics (values: the patient's
\* observations of the code)
avg_value(values, pop_stats) == pop_stats.mean

\* z_score that yields 0 instead of failing on a standard deviation of 0
z_score_guarded(avg, pop_stats) ==
    [error |-> "",
     value |-> IF pop_stats.std = 0 THEN 0
               ELSE Abs(Quot((avg - pop_stats.mean) * PREC, pop_stats.std))]

\* z_score = abs((avg_value - pop_stats.mean) / pop_stats.std)
z_score(avg, pop_stats) ==
    IF pop_stats.std = 0
    THEN [error |-> "ZeroDivisionError", value |-> 0]
    ELSE [error |-> "",
          value |-> Abs(Quot((avg - pop_stats.mean) * PREC, pop_stats.std))]

\* value_score = max(0, 100 - (z_score * 20))
value_score(z) == Max(0, Float(100) - z * 20)

\* consistency_score = max(0, 100 - (cv * 50)), cv = stdev(values) / mean(values)
consistency_score(O) ==
    IF Cardinality(O) < 2
    THEN [error |-> "StatisticsError", value |-> 0]
    ELSE IF mean(O, value_quantity) = 0
    THEN [error |-> "ZeroDivisionError", value |-> 0]
    ELSE LET cv == Quot(stdev(O, value_quantity) * PREC, mean(O, value_quantity))
         IN  [error |-> "", value |-> Max(0, Float(100) - cv * 50)]

\* the codes of the patient's observations that get a ValueScore
scored_codes(O, stats) ==
    { c \in DOMAIN _prepare_observations_values(O) : c \in DOMAIN stats }

\* PatientMetrics of the patient's observations O, or the error raised
_calculate_metrics(O, stats) ==
    LET observations_per_code == _prepare_observations_values(O)
        scored == scored_codes(O, stats)
        avg == [ c \in scored |-> avg_value(observations_per_code[c], stats[c]) ]
        z   == [ c \in scored |-> z_score(avg[c], stats[c]) ]
        value_scores ==
            [ c \in scored |->
                [ code           |-> c,
                  patient_avg    |-> avg[c],
                  population_avg |-> stats[c].mean,
                  z_score        |-> z[c].value,
                  score          |-> value_score(z[c].value) ] ]
        cons == consistency_score(O)
    IN  [ error |-> IF \E c \in scored : z[c].error # ""
                    THEN "ZeroDivisionError"
                    ELSE cons.error,
          observation_count |-> Cardinality(O),
          observation_codes |-> DOMAIN observations_per_code,
          value_scores      |-> value_scores,
          consistency_score |-> cons.value ]

\* _calculate_score as the plain mean of the value scores
_calculate_score_unweighted(metrics) ==
    LET scores == [ c \in DOMAIN metrics.value_scores |->
                      metrics.value_scores[c].score ]
    IN  IF DOMAIN scores # {} THEN mean(DOMAIN scores, scores) ELSE 0

\* overall score: coverage, value quality and consistency, weighted
_calculate_score(metrics) ==
    LET coverage == Min(100, Cardinality(metrics.observation_codes) * 20)
        scores   == [ c \in DOMAIN metrics.value_scores |->
                        metrics.value_scores[c].score ]
        quality  == IF DOMAIN metrics.value_scores # {}
                    THEN mean(DOMAIN scores, scores)
                           * settings.SERVICE_SCORE_WEIGHT_VALUE_QUALITY
                    ELSE 0
        res == Float(coverage) * settings.SERVICE_SCORE_WEIGHT_OBSERVATION_COVERAGE
               + quality
               + metrics.consistency_score * settings.SERVICE_SCORE_WEIGHT_CONS
    IN  RoundHalfEven(res, 100)

\* the fixed assessment sentences
assignments_map ==
    [ b \in 0..4 |->
        CASE b = 4 -> "Excellent health data quality and consistency."
          [] b = 3 -> "Good health data with room for improvement."
          [] b = 2 -> "Moderate health data quality, consider additional monitoring."
          [] b = 1 -> "Limited health data quality, recommend increase activity."
          [] b = 0 -> "Inappropriate health score, instant actions are required." ]

\* assessment_bucket computed as floor((health_score - 1) / 20)
assessment_bucket_minus_one(health_score) == (health_score - Float(1)) \div Float(20)

\* index into assignments_map: int(health_score // 20)
assessment_bucket(health_score) == health_score \div Float(20)

\* _compose_conclusion with the bucket clamped to 0..4
_compose_conclusion_clamped(health_score) ==
    LET bucket == Max(0, Min(4, assessment_bucket(health_score)))
    IN  [error |-> "", overall_assessment |-> assignments_map[bucket]]

\* overall assessment of the conclusion, or KeyError
_compose_conclusion(health_score) ==
    LET bucket == assessment_bucket(health_score)
    IN  IF bucket \in DOMAIN assignments_map
        THEN [error |-> "", overall_assessment |-> assignments_map[bucket]]
        ELSE [error |-> "KeyError", overall_assessment |-> ""]

\* value of the fields of a response that carries no report
NoMetrics ==
    [ error |-> "", observation_count |-> 0, observation_codes |-> {},
      value_scores |-> <<>>, consistency_score |-> 0 ]

\* an effective period that is not set (effectivePeriod = None)
NoPeriod == [ present |-> FALSE, start |-> NoTime, end |-> NoTime ]

NoReport ==
    [ subject |-> 0, health_score |-> 0, metrics |-> NoMetrics,
      result |-> {}, overall_assessment |-> "", effective_period |-> NoPeriod ]

\* _construct_report that references every stored observation
_construct_report_all_stored(filters, patient, health_score, metrics, O) ==
    LET conclusion == _compose_conclusion(health_score)
    IN  [ error  |-> conclusion.error,
          report |-> [ subject      |-> patient.id,
                       health_score |-> health_score,
                       metrics      |-> metrics,
                       result       |-> DOMAIN observations,
                       overall_assessment |-> conclusion.overall_assessment,
                       effective_period   |-> NoPeriod ] ]

\* the DiagnosticReport, or the error of composing its conclusion
_construct_report(filters, patient, health_score, metrics, O) ==
    LET conclusion == _compose_conclusion(health_score)
    IN  [ error  |-> conclusion.error,
          report |-> [ subject      |-> patient.id,
                       health_score |-> health_score,
                       metrics      |-> metrics,
                       result       |-> O,
                       overall_assessment |-> conclusion.overall_assessment,
                       effective_period   |-> NoPeriod ] ]

Failure(op, filters, error) ==
    [ op |-> op, filters |-> filters, kind |-> "error",
      error |-> ServiceExceptionDepends(error), report |-> NoReport,
      pk |-> NoId, body |-> NoBody ]

\* the observations get_health_score reads for the filters of the request:
\* those of the subject inside the window, ...
patient_observations(filters) == get_observations(filters)

\* ... every observation whose id is not among them, ...
other_observations(filters) == get_where_id_notin(patient_observations(filters))

\* ... and the statistics of the two lists together
stats(filters) ==
    _calculate_statistics(patient_observations(filters)
                            \cup other_observations(filters))

\* HealthTrackerService.get_health_score
get_health_score(filters) ==
    LET subject == CHOOSE p \in filters.subject_ids : TRUE
        patient == get_patient(subject)
        patient_metrics ==
            _calculate_metrics(patient_observations(filters), stats(filters))
        patient_score == _calculate_score(patient_metrics)
        diagnostic_report ==
            _construct_report(filters, patient, patient_score, patient_metrics,
                              patient_observations(filters))
    IN  IF patient.error # ""
        THEN Failure("get_health_score", filters, patient.error)
        ELSE IF patient_observations(filters) = {}
        THEN Failure("get_health_score", filters, "HTTPBadRequestError")
        ELSE IF patient_metrics.error # ""
        THEN Failure("get_health_score", filters, patient_metrics.error)
        ELSE IF diagnostic_report.error # ""
        THEN Failure("get_health_score", filters, diagnostic_report.error)
        ELSE [ op |-> "get_health_score", filters |-> filters, kind |-> "report",
               error |-> "", report |-> diagnostic_report.report,
               pk |-> NoId, body |-> NoBody ]

\* ------------------------------------------------------------- requests
NoFilters == [subject_ids |-> {}, start |-> NoTime, end |-> NoTime]

\* the response of a request other than a health score request
NoResponse ==
    [ op |-> "none", filters |-> NoFilters, kind |-> "ok", error |-> "",
      report |-> NoReport, pk |-> NoId, body |-> NoBody ]

Init ==
    /\ settings \in SettingsChoices
    /\ patients = <<>>
    /\ codings = <<>>
    /\ concepts = <<>>
    /\ observations = <<>>
    /\ response = NoResponse
    /\ requests = <<>>

\* a session that commits whatever the request flushed, error or not
get_database_session_committing(table, flushed, error) == flushed

\* get_database_session: the transaction of the request, session_maker.begin,
\* commits what the request flushed when the request returns and rolls it
\* back when the request raises
get_database_session(table, flushed, error) ==
    IF error = "" THEN flushed ELSE table

\* the response of a request for the row pk that succeeded, with its body
Returned(op, pk, body) ==
    [ NoResponse EXCEPT !.op = op, !.pk = pk, !.body = body ]

\* the response of a request for the row pk that ended in an error
Raised(op, pk, error) == [ Failure(op, NoFilters, error) EXCEPT !.pk = pk ]

\* POST /patients: a row with a fresh id; the response is the instance
create_patient(payload) ==
    /\ Cardinality(DOMAIN patients) < MaxPatients
    /\ patients' = create(patients, payload)
    /\ response' =
          Returned("create_patient", NewId(patients),
                   _use_result(NewId(patients), payload))
    /\ UNCHANGED <<settings, codings, concepts, observations, requests>>

\* POST /codeable-concepts: a concept row with a fresh id, linked to the
\* coding of each item of payload.coding (created if no coding has the
\* code).  Two items that resolve to one coding make two equal links, which
\* the unique constraint of the link table refuses: the transaction of the
\* request is rolled back.
create_codeable_concept(payload) ==
    LET linked == create_codings(codings, payload.coding, <<>>)
        instance == [ text |-> payload.text, coding |-> Range(linked.links) ]
        error == IF Cardinality(Range(linked.links)) < Len(linked.links)
                 THEN "IntegrityError" ELSE ""
    IN  /\ Cardinality(DOMAIN concepts) < MaxConcepts
        /\ codings' = get_database_session(codings, linked.table, error)
        /\ concepts' =
              get_database_session(concepts, create(concepts, instance), error)
        /\ response' =
              IF error = ""
              THEN Returned("create_codeable_concept", NewId(concepts),
                            CodeableConceptRead(codings', concepts',
                                                NewId(concepts)))
              ELSE Raised("create_codeable_concept", NoId, error)
        /\ UNCHANGED <<settings, patients, observations, requests>>

\* create_observation that returns the instance as it was created, before
\* its categories were linked
create_observation_stale(payload) ==
    LET error ==
            IF payload.subject_id \notin DOMAIN patients
                \/ payload.code_id \notin DOMAIN concepts
            THEN "IntegrityError"
            ELSE IF ~ (payload.category_ids \subseteq DOMAIN concepts)
            THEN "NoResultFound"
            ELSE ""
        flushed ==
            IF error = "IntegrityError" THEN observations
            ELSE create(observations, payload)
    IN  /\ Cardinality(DOMAIN observations) < MaxObservations
        /\ observations' = get_database_session(observations, flushed, error)
        /\ response' =
              IF error = ""
              THEN Returned("create_observation", NewId(observations),
                            ObservationRead(patients, codings, concepts,
                                            create(observations,
                                                   [ payload EXCEPT
                                                       !.category_ids = {} ]),
                                            NewId(observations)))
              ELSE Raised("create_observation", NoId, error)
        /\ UNCHANGED <<settings, patients, codings, concepts, requests>>

\* POST /observations: a row with a fresh id, linked to each category of the
\* payload.  A subject_id or code_id that no row has fails the foreign key
\* when the row is flushed, a category id that no concept has fails the get
\* of the category after the row was flushed.
create_observation(payload) ==
    LET error ==
            IF payload.subject_id \notin DOMAIN patients
                \/ payload.code_id \notin DOMAIN concepts
            THEN "IntegrityError"
            ELSE IF ~ (payload.category_ids \subseteq DOMAIN concepts)
            THEN "NoResultFound"
            ELSE ""
        flushed ==
            IF error = "IntegrityError" THEN observations
            ELSE create(observations, payload)
    IN  /\ Cardinality(DOMAIN observations) < MaxObservations
        /\ observations' = get_database_session(observations, flushed, error)
        /\ response' =
              IF error = ""
              THEN Returned("create_observation", NewId(observations),
                            ObservationRead(patients, codings, concepts,
                                            observations',
                                            NewId(observations)))
              ELSE Raised("create_observation", NoId, error)
        /\ UNCHANGED <<settings, patients, codings, concepts, requests>>

\* GetHealthScore that writes the observations it read back as amended
GetHealthScore_writing(patient_id, window) ==
    LET filters == [ subject_ids |-> {patient_id},
                     start |-> window[1], end |-> window[2] ]
    IN  /\ response' = get_health_score(filters)
        /\ observations' =
              [ o \in DOMAIN observations |->
                  IF o \in patient_observations(filters)
                  THEN [ observations[o] EXCEPT !.status = "amended" ]
                  ELSE observations[o] ]
        /\ UNCHANGED <<settings, patients, codings, concepts, requests>>

\* GET /health-score/{patient_id}?start=..&end=..
GetHealthScore(patient_id, window) ==
    /\ response' = get_health_score([ subject_ids |-> {patient_id},
                                      start |-> window[1],
                                      end |-> window[2] ])
    /\ UNCHANGED <<settings, patients, codings, concepts, observations, requests>>

PatientCreate == [ name : {"n1"}, gender : {"male"} ]

CodeableConceptCreate == [ text : {"t1"}, coding : CodingPayloads ]

ObservationCreate ==
    [ status : Statuses, issued : Times,
      subject_id : PatientIds, code_id : ConceptIds, value_quantity : Values,
      effective_datetime_start : Times, effective_datetime_end : Times,
      category_ids : SUBSET ConceptIds ]

\* the observation payloads of the requests of Spec: final, issued at 1, no
\* categories
ScoredObservationCreate ==
    { payload \in ObservationCreate :
        /\ payload.status = "final"
        /\ payload.issued = 1
        /\ payload.category_ids = {}
        /\ <<payload.effective_datetime_start, payload.effective_datetime_end>>
               \in Periods }

Next ==
    \/ \E payload \in PatientCreate : create_patient(payload)
    \/ \E payload \in CodeableConceptCreate : create_codeable_concept(payload)
    \/ \E payload \in ScoredObservationCreate : create_observation(payload)
    \/ \E patient_id \in PatientIds, window \in Windows :
          GetHealthScore(patient_id, window)

Spec == Init /\ [][Next]_vars

\* ---------------------------------------------- updates (PATCH requests)
\* database_fieldnames of the repositories: the columns of the model, its
\* relationships (subject, code, category, coding) left out
PatientFieldnames == {"name", "gender"}
CodeableConceptFieldnames == {"text"}
ObservationFieldnames ==
    { "status", "issued", "subject_id", "code_id", "value_quantity",
      "effective_datetime_start", "effective_datetime_end" }

\* an update payload: the names of the fields explicitly set
\* (model_fields_set) and the values of the fields
PatientUpdate ==
    [ model_fields_set : SUBSET {"name", "gender"},
      values : [ name : {"n2"}, gender : {"other"} ] ]

CodeableConceptUpdate ==
    [ model_fields_set : SUBSET {"text", "coding"},
      values : [ text : {"t2"}, coding : { <<>>, <<Coding("B")>> } ] ]

ObservationUpdate ==
    [ model_fields_set :
          { {}, {"status"}, {"value_quantity"}, {"code_id"}, {"category_ids"},
            {"status", "value_quantity", "code_id", "category_ids"} },
      values : [ status : {"amended"}, value_quantity : {-1},
                 code_id : ConceptIds, category_ids : SUBSET ConceptIds ] ]

\* _use_payload: the fields of the payload that are set and are columns
_use_payload(payload, fieldnames) == payload.model_fields_set \cap fieldnames

\* SQLAlchemyRepositoryBase.update of a stored row: setattr for each item of
\* the data, the other attributes of the instance stay
update(row, payload, fieldnames) ==
    LET data == _use_payload(payload, fieldnames)
    IN  [ k \in DOMAIN row |-> IF k \in data THEN payload.values[k] ELSE row[k] ]

\* PATCH /patients/{pk}: the response is the instance after the setattr
update_patient(pk, payload) ==
    /\ IF pk \notin DOMAIN patients
       THEN /\ response' = Raised("update_patient", pk, "NoResultFound")
            /\ UNCHANGED patients
       ELSE /\ patients' =
                  [ patients EXCEPT ![pk] = update(@, payload, PatientFieldnames) ]
            /\ response' =
                  Returned("update_patient", pk,
                           _use_result(pk, update(patients[pk], payload,
                                                  PatientFieldnames)))
    /\ UNCHANGED <<settings, codings, concepts, observations, requests>>

\* update_codeable_concept that does not look at the coding of the payload
update_codeable_concept_unchecked(pk, payload) ==
    /\ IF pk \notin DOMAIN concepts
       THEN /\ response' =
                  Raised("update_codeable_concept", pk, "NoResultFound")
            /\ UNCHANGED concepts
       ELSE /\ concepts' =
                  [ concepts EXCEPT
                      ![pk] = update(@, payload, CodeableConceptFieldnames) ]
            /\ response' =
                  Returned("update_codeable_concept", pk,
                           CodeableConceptRead(codings, concepts', pk))
    /\ UNCHANGED <<settings, patients, codings, observations, requests>>

\* PATCH /codeable-concepts/{pk}: the row is updated, then a payload that
\* sets coding is refused and the transaction of the request rolled back
update_codeable_concept(pk, payload) ==
    /\ IF pk \notin DOMAIN concepts
       THEN /\ response' =
                  Raised("update_codeable_concept", pk, "NoResultFound")
            /\ UNCHANGED concepts
       ELSE LET instance == update(concepts[pk], payload,
                                   CodeableConceptFieldnames)
                error == IF "coding" \in payload.model_fields_set
                         THEN "HTTPBadRequestError" ELSE ""
            IN  /\ concepts' =
                      get_database_session(
                          concepts, [ concepts EXCEPT ![pk] = instance ], error)
                /\ response' =
                      IF error = ""
                      THEN Returned("update_codeable_concept", pk,
                                    CodeableConceptRead(codings, concepts', pk))
                      ELSE Raised("update_codeable_concept", pk, error)
    /\ UNCHANGED <<settings, patients, codings, observations, requests>>

\* PATCH /observations/{pk}: the row is updated and flushed (a code_id that
\* no concept has fails the foreign key); for a payload that sets
\* category_ids the links are then deleted with
\* self.db.observation_to_concept.delete_where, a method the repository does
\* not have: AttributeError.  An error rolls the transaction of the request
\* back.
update_observation(pk, payload) ==
    /\ IF pk \notin DOMAIN observations
       THEN /\ response' = Raised("update_observation", pk, "NoResultFound")
            /\ UNCHANGED observations
       ELSE LET instance == update(observations[pk], payload,
                                   ObservationFieldnames)
                error ==
                    IF instance.code_id \notin DOMAIN concepts
                    THEN "IntegrityError"
                    ELSE IF "category_ids" \in payload.model_fields_set
                    THEN "AttributeError"
                    ELSE ""
                flushed ==
                    IF error = "IntegrityError" THEN observations
                    ELSE [ observations EXCEPT ![pk] = instance ]
            IN  /\ observations' =
                      get_database_session(observations, flushed, error)
                /\ response' =
                      IF error = ""
                      THEN Returned("update_observation", pk,
                                    ObservationRead(patients, codings, concepts,
                                                    observations', pk))
                      ELSE Raised("update_observation", pk, error)
    /\ UNCHANGED <<settings, patients, codings, concepts, requests>>

\* ------------------------------------- reads and deletes (GET, DELETE)
\* GET /patients/{pk}
GetPatient(pk) ==
    /\ response' =
          IF pk \in DOMAIN patients
          THEN Returned("get_patient", pk, PatientRead(patients, pk))
          ELSE Raised("get_patient", pk, "NoResultFound")
    /\ UNCHANGED <<settings, patients, codings, concepts, observations, requests>>

\* GET /patients: the items, here without their order
GetPatients ==
    /\ response' =
          Returned("get_patients", NoId,
                   { PatientRead(patients, pk) : pk \in DOMAIN patients })
    /\ UNCHANGED <<settings, patients, codings, concepts, observations, requests>>

\* GET /codeable-concepts/{pk}
GetCodeableConcept(pk) ==
    /\ response' =
          IF pk \in DOMAIN concepts
          THEN Returned("get_codeable_concept", pk,
                        CodeableConceptRead(codings, concepts, pk))
          ELSE Raised("get_codeable_concept", pk, "NoResultFound")
    /\ UNCHANGED <<settings, patients, codings, concepts, observations, requests>>

\* GET /codeable-concepts: the items, here without their order
GetCodeableConcepts ==
    /\ response' =
          Returned("get_codeable_concepts", NoId,
                   { CodeableConceptRead(codings, concepts, pk) :
                       pk \in DOMAIN concepts })
    /\ UNCHANGED <<settings, patients, codings, concepts, observations, requests>>

\* GET /observations/{pk}
GetObservation(pk) ==
    /\ response' =
          IF pk \in DOMAIN observations
          THEN Returned("get_observation", pk,
                        ObservationRead(patients, codings, concepts,
                                        observations, pk))
          ELSE Raised("get_observation", pk, "NoResultFound")
    /\ UNCHANGED <<settings, patients, codings, concepts, observations, requests>>

\* GET /observations without filters: the items, here without their order
GetObservations ==
    /\ response' =
          Returned("get_observations", NoId,
                   { ObservationRead(patients, codings, concepts,
                                     observations, pk) :
                       pk \in get_observations(NoFilters) })
    /\ UNCHANGED <<settings, patients, codings, concepts, observations, requests>>

\* SQLAlchemyRepositoryBase.delete: the table without the row
delete(table, pk) == [ i \in DOMAIN table \ {pk} |-> table[i] ]

\* a foreign key without ondelete: the observations stay
cascade_subject_none(O, P) == O

\* ForeignKey(Patient.id, ondelete="CASCADE") of Observation.subject_id: the
\* observations left when the patients have become P
cascade_subject(O, P) ==
    [ o \in { i \in DOMAIN O : O[i].subject_id \in DOMAIN P } |-> O[o] ]

\* ForeignKey(CodeableConcept.id, ondelete="CASCADE") of Observation.code_id
\* and of the codeable_concept_to_observation links: the observations and
\* category links left when the concepts have become CC
cascade_concept(O, CC) ==
    [ o \in { i \in DOMAIN O : O[i].code_id \in DOMAIN CC } |->
        [ O[o] EXCEPT !.category_ids = @ \cap DOMAIN CC ] ]

\* DELETE /patients/{pk}
delete_patient(pk) ==
    /\ IF pk \notin DOMAIN patients
       THEN /\ response' = Raised("delete_patient", pk, "NoResultFound")
            /\ UNCHANGED <<patients, observations>>
       ELSE /\ patients' = delete(patients, pk)
            /\ observations' = cascade_subject(observations, patients')
            /\ response' = Returned("delete_patient", pk, NoBody)
    /\ UNCHANGED <<settings, codings, concepts, requests>>

\* DELETE /codeable-concepts/{pk}: the codings of the concept stay
delete_codeable_concept(pk) ==
    /\ IF pk \notin DOMAIN concepts
       THEN /\ response' = Raised("delete_codeable_concept", pk, "NoResultFound")
            /\ UNCHANGED <<concepts, observations>>
       ELSE /\ concepts' = delete(concepts, pk)
            /\ observations' = cascade_concept(observations, concepts')
            /\ response' = Returned("delete_codeable_concept", pk, NoBody)
    /\ UNCHANGED <<settings, patients, codings, requests>>

\* DELETE /observations/{pk}
delete_observation(pk) ==
    /\ IF pk \notin DOMAIN observations
       THEN /\ response' = Raised("delete_observation", pk, "NoResultFound")
            /\ UNCHANGED observations
       ELSE /\ observations' = delete(observations, pk)
            /\ response' = Returned("delete_observation", pk, NoBody)
    /\ UNCHANGED <<settings, patients, codings, concepts, requests>>

\* the observation payloads of the create requests next to the updates
CrudObservationCreate ==
    { payload \in ObservationCreate :
        /\ payload.status = "final"
        /\ payload.issued = 1
        /\ payload.value_quantity = 1
        /\ payload.effective_datetime_start = 1
        /\ payload.effective_datetime_end = 1
        /\ Cardinality(payload.category_ids) <= 1 }

\* the concept payloads of the create requests next to the updates
CrudCodeableConceptCreate ==
    { payload \in CodeableConceptCreate : payload.coding[1].code = "A" }

CrudNext ==
    \/ \E payload \in PatientCreate :
          /\ Cardinality(DOMAIN patients) < MaxCrudPatients
          /\ create_patient(payload)
    \/ \E payload \in CrudCodeableConceptCreate : create_codeable_concept(payload)
    \/ \E payload \in CrudObservationCreate :
          /\ Cardinality(DOMAIN observations) < MaxCrudObservations
          /\ create_observation(payload)
    \/ \E pk \in PatientIds, payload \in PatientUpdate :
          update_patient(pk, payload)
    \/ \E pk \in ConceptIds, payload \in CodeableConceptUpdate :
          update_codeable_concept(pk, payload)
    \/ \E pk \in 1..(MaxCrudObservations + 1), payload \in ObservationUpdate :
          update_observation(pk, payload)

CrudSpec == Init /\ [][CrudNext]_vars

\* the payloads of the requests of StoreSpec: concepts of one coding or of
\* two codings of the same code, ...
StoreCodeableConceptCreate ==
    [ text : {"t1"},
      coding : { <<Coding("A")>>, <<Coding("B")>>,
                 <<Coding("A"), [ system |-> "s2", code |-> "A" ]>> } ]

\* ... patient updates that set the name or nothing, ...
StorePatientUpdate ==
    { payload \in PatientUpdate : payload.model_fields_set \subseteq {"name"} }

\* ... and observation updates that set the code, the categories, every
\* field or nothing
StoreObservationUpdate ==
    { payload \in ObservationUpdate :
        payload.model_fields_set \in
            { {}, {"code_id"}, {"category_ids"},
              {"status", "value_quantity", "code_id", "category_ids"} } }

\* the requests of the routes of patients, codeable concepts and
\* observations: create, read, update and delete
StoreNext ==
    \/ \E payload \in PatientCreate :
          /\ Cardinality(DOMAIN patients) < MaxCrudPatients
          /\ create_patient(payload)
    \/ \E payload \in StoreCodeableConceptCreate : create_codeable_concept(payload)
    \/ \E payload \in CrudObservationCreate :
          /\ Cardinality(DOMAIN observations) < MaxCrudObservations
          /\ create_observation(payload)
    \/ \E pk \in PatientIds : GetPatient(pk)
    \/ GetPatients
    \/ \E pk \in ConceptIds : GetCodeableConcept(pk)
    \/ GetCodeableConcepts
    \/ \E pk \in 1..(MaxCrudObservations + 1) : GetObservation(pk)
    \/ GetObservations
    \/ \E pk \in PatientIds, payload \in StorePatientUpdate :
          update_patient(pk, payload)
    \/ \E pk \in ConceptIds, payload \in CodeableConceptUpdate :
          update_codeable_concept(pk, payload)
    \/ \E pk \in 1..(MaxCrudObservations + 1), payload \in StoreObservationUpdate :
          update_observation(pk, payload)
    \/ \E pk \in PatientIds : delete_patient(pk)
    \/ \E pk \in ConceptIds : delete_codeable_concept(pk)
    \/ \E pk \in 1..(MaxCrudObservations + 1) : delete_observation(pk)

StoreSpec == Init /\ [][StoreNext]_vars

\* ------------------------- concurrent create_codeable_concept requests
\* Each request runs in a transaction of its own (get_database_session): it
\* reads the committed rows and its own flushed rows, and its rows reach the
\* store when the transaction commits.
MaxRequests == 2

\* the concepts that the requests of RaceSpec create
MaxRaceConcepts == 3

\* the unique constraint of Coding.code left out
unique_unchecked(table, rows) == TRUE

\* the unique constraint of Coding.code: rows can be committed to the table
\* only when no stored row has one of their codes
unique(table, rows) ==
    \A k \in DOMAIN rows : \A i \in DOMAIN table : table[i].code # rows[k].code

\* the coding table after the flushed rows of a transaction are committed,
\* and the ids they got
RECURSIVE commit_codings(_, _, _)
commit_codings(table, rows, ids) ==
    IF rows = <<>>
    THEN [ table |-> table, ids |-> ids ]
    ELSE commit_codings(create(table, Head(rows)), Tail(rows),
                        Append(ids, NewId(table)))

\* the payloads of the concurrent requests: one code with either system, the
\* other code, and both codes
RaceCodeableConceptCreate ==
    [ text : {"t1"},
      coding : { <<Coding("A")>>, <<[ system |-> "s2", code |-> "A" ]>>,
                 <<Coding("B")>>, <<Coding("A"), Coding("B")>> } ]

\* create_codeable_concept up to its loop: the transaction begins and the
\* concept row is flushed
begin_create_codeable_concept(payload) ==
    /\ Len(requests) < MaxRequests
    /\ Cardinality(DOMAIN concepts) + Len(requests) < MaxRaceConcepts
    /\ requests' = Append(requests, [ payload |-> payload,
                                      items |-> payload.coding,
                                      flushed |-> <<>>,
                                      links |-> <<>> ])
    /\ UNCHANGED <<settings, patients, codings, concepts, observations, response>>

\* one pass of the loop of create_codeable_concept in request r:
\* create_if_not_exists finds the coding of this code among the committed
\* rows or the rows of its own transaction, or flushes a new row; then the
\* link is added
create_if_not_exists_step(r) ==
    LET request == requests[r]
        item == Head(request.items)
        stored == { i \in DOMAIN codings : codings[i].code = item.code }
        own == { k \in DOMAIN request.flushed :
                    request.flushed[k].code = item.code }
        link ==
            IF stored # {} THEN [ id |-> CHOOSE i \in stored : TRUE, own |-> NoId ]
            ELSE IF own # {} THEN [ id |-> NoId, own |-> CHOOSE k \in own : TRUE ]
            ELSE [ id |-> NoId, own |-> Len(request.flushed) + 1 ]
    IN  /\ request.items # <<>>
        /\ requests' =
              [ requests EXCEPT ![r] =
                  [ request EXCEPT
                      !.items = Tail(@),
                      !.flushed = IF stored = {} /\ own = {}
                                  THEN Append(@, item) ELSE @,
                      !.links = Append(@, link) ] ]
        /\ UNCHANGED <<settings, patients, codings, concepts, observations, response>>

\* the end of request r: the transaction commits, or is rolled back when a
\* constraint refuses its rows (the unique code of a coding, the primary key
\* of a link)
commit_create_codeable_concept(r) ==
    LET request == requests[r]
        committed == commit_codings(codings, request.flushed, <<>>)
        coding_ids == { IF request.links[k].own = NoId
                        THEN request.links[k].id
                        ELSE committed.ids[request.links[k].own] :
                        k \in DOMAIN request.links }
        instance == [ text |-> request.payload.text, coding |-> coding_ids ]
        error == IF ~ unique(codings, request.flushed)
                    \/ Cardinality({ request.links[k] : k \in DOMAIN request.links })
                          < Len(request.links)
                 THEN "IntegrityError" ELSE ""
    IN  /\ request.items = <<>>
        /\ requests' = SubSeq(requests, 1, r - 1)
                          \o SubSeq(requests, r + 1, Len(requests))
        /\ codings' = get_database_session(codings, committed.table, error)
        /\ concepts' =
              get_database_session(concepts, create(concepts, instance), error)
        /\ response' =
              IF error = ""
              THEN Returned("create_codeable_concept", NewId(concepts),
                            CodeableConceptRead(codings', concepts',
                                                NewId(concepts)))
              ELSE Raised("create_codeable_concept", NoId, error)
        /\ UNCHANGED <<settings, patients, observations>>

\* create_codeable_concept requests, their steps interleaved
RaceNext ==
    \/ \E payload \in RaceCodeableConceptCreate :
          begin_create_codeable_concept(payload)
    \/ \E r \in DOMAIN requests : create_if_not_exists_step(r)
    \/ \E r \in DOMAIN requests : commit_create_codeable_concept(r)

RaceSpec == Init /\ [][RaceNext]_vars

\* ------------------- a health score request next to concurrent requests
\* get_health_score awaits its reads one after the other; requests of other
\* clients that create or delete observations commit between them.
MaxRuns == 1

\* the observations that the requests of RunSpec create
MaxRunObservations == 2

\* the rows of a select as the request keeps them: id and columns
rows(ids) == [ o \in ids |-> observations[o] ]

\* the filters of the health score requests of RunSpec: no window
RunFilters ==
    { [ subject_ids |-> {patient_id}, start |-> NoTime, end |-> NoTime ] :
        patient_id \in PatientIds }

\* the observation payloads of the concurrent requests
RunObservationCreate ==
    { payload \in CrudObservationCreate :
        payload.code_id = 1 /\ payload.category_ids = {} }

\* get_health_score up to its first read of observations: get_patient
begin_get_health_score(filters) ==
    LET subject == CHOOSE p \in filters.subject_ids : TRUE
        patient == get_patient(subject)
    IN  /\ Len(requests) < MaxRuns
        /\ IF patient.error # ""
           THEN /\ response' = Failure("get_health_score", filters, patient.error)
                /\ UNCHANGED requests
           ELSE /\ requests' =
                      Append(requests, [ filters |-> filters,
                                         pc |-> "patient_observations",
                                         patient_observations |-> <<>>,
                                         other_observations |-> <<>> ])
                /\ UNCHANGED response
        /\ UNCHANGED <<settings, patients, codings, concepts, observations>>

\* patient_observations = await self.get_observations(filters), and the
\* HTTPBadRequestError when there is none
fetch_patient_observations(r) ==
    LET request == requests[r]
        selected == get_observations(request.filters)
    IN  /\ request.pc = "patient_observations"
        /\ IF selected = {}
           THEN /\ response' = Failure("get_health_score", request.filters,
                                       "HTTPBadRequestError")
                /\ requests' = SubSeq(requests, 1, r - 1)
                                  \o SubSeq(requests, r + 1, Len(requests))
           ELSE /\ requests' =
                      [ requests EXCEPT ![r] =
                          [ request EXCEPT
                              !.pc = "other_observations",
                              !.patient_observations = rows(selected) ] ]
                /\ UNCHANGED response
        /\ UNCHANGED <<settings, patients, codings, concepts, observations>>

\* other_observations = await self.db.observations.get_where(clauses=...),
\* its clause built from the ids of patient_observations
fetch_other_observations(r) ==
    LET request == requests[r]
        selected == get_where_id_notin(DOMAIN request.patient_observations)
    IN  /\ request.pc = "other_observations"
        /\ requests' =
              [ requests EXCEPT ![r] =
                  [ request EXCEPT
                      !.pc = "statistics",
                      !.other_observations = rows(selected) ] ]
        /\ UNCHANGED <<settings, patients, codings, concepts, observations,
                       response>>

\* the rest of get_health_score: statistics, metrics, score and report are
\* computed from the two lists the request has read; the response keeps the
\* lists
calculate_health_score(r) ==
    LET request == requests[r]
    IN  /\ request.pc = "statistics"
        /\ requests' = SubSeq(requests, 1, r - 1)
                          \o SubSeq(requests, r + 1, Len(requests))
        /\ response' =
              [ Returned("get_health_score", NoId,
                         [ patient_observations |-> request.patient_observations,
                           other_observations |-> request.other_observations ])
                  EXCEPT !.filters = request.filters ]
        /\ UNCHANGED <<settings, patients, codings, concepts, observations>>

\* a health score request, read by read, and the requests of other clients
RunNext ==
    \/ \E payload \in PatientCreate :
          /\ Cardinality(DOMAIN patients) < MaxCrudPatients
          /\ create_patient(payload)
    \/ \E payload \in CrudCodeableConceptCreate :
          /\ concepts = <<>>
          /\ create_codeable_concept(payload)
    \/ \E payload \in RunObservationCreate :
          /\ Cardinality(DOMAIN observations) < MaxRunObservations
          /\ create_observation(payload)
    \/ \E pk \in 1..MaxRunObservations : delete_observation(pk)
    \/ \E filters \in RunFilters : begin_get_health_score(filters)
    \/ \E r \in DOMAIN requests : fetch_patient_observations(r)
    \/ \E r \in DOMAIN requests : fetch_other_observations(r)
    \/ \E r \in DOMAIN requests : calculate_health_score(r)

RunSpec == Init /\ [][RunNext]_vars

\* --------------------------------- integration (services/integration.py)
\* ids of the resources of the external FHIR server: uuids that the store
\* did not generate
ExternalIds == {11, 12}

\* external.Patient resources, as their model_dump()
ExternalPatients ==
    [ id : ExternalIds, name : {"n1"}, gender : {"male"} ]

\* external.Observation resources: subject.reference is the id of an external
\* patient, code a concept of at most one coding
ExternalObservations ==
    [ id : {11}, status : {"final"}, issued : {1}, effectiveDateTime : {1},
      valueQuantity : {1}, subject : ExternalIds,
      code : [ text : {"t1"}, coding : { <<>>, <<Coding("A")>> } ] ]

\* the lists the external server returns
ExternalPatientLists ==
    {<<>>} \cup { <<p>> : p \in ExternalPatients }
           \cup { <<p, q>> : p, q \in { r \in ExternalPatients : TRUE } }

ExternalObservationLists ==
    {<<>>} \cup { <<o>> : o \in ExternalObservations }

\* the field names (and aliases) that the create and update schemas accept;
\* BaseSchema has extra="forbid"
PatientModelFields == {"name", "gender"}
CodeableConceptModelFields == {"text", "coding"}
ObservationModelFields ==
    { "status", "issued", "effectiveDatetimeStart", "effectiveDatetimeEnd",
      "valueQuantity", "valueQuantityUnit", "subject_id", "code_id",
      "category_ids" }

\* Schema.model_validate(data): a key that is no field of the schema is
\* refused
model_validate(fields, data) ==
    IF DOMAIN data \subseteq fields THEN "" ELSE "ValidationError"

\* the codes in the order of CodeableConcept.coding (system, code)
CodeOrder == <<"A", "B">>

\* CodeableConcept.codes of a stored concept
codes(C, CC, pk) ==
    SelectSeq(CodeOrder, LAMBDA c : \E i \in CC[pk].coding : C[i].code = c)

\* concepts_map of integrate: the concept read last for each tuple of codes
concepts_map(C, CC) ==
    [ key \in { codes(C, CC, pk) : pk \in DOMAIN CC } |->
        CHOOSE pk \in DOMAIN CC :
            /\ codes(C, CC, pk) = key
            /\ \A other \in DOMAIN CC : codes(C, CC, other) = key => other <= pk ]

\* HealthTrackerIntegration.integrate_patient on the state st of a run
integrate_patient(st, external_patient) ==
    LET pk == external_patient.id
        row == [ name |-> external_patient.name,
                 gender |-> external_patient.gender ]
        error == model_validate(PatientModelFields, external_patient)
    IN  IF error # "" THEN [ st EXCEPT !.error = error ]
        ELSE IF pk \in st.patients_map
        THEN IF pk \in DOMAIN st.patients
             THEN [ st EXCEPT !.patients[pk] = row ]
             ELSE [ st EXCEPT !.error = "HTTPNotFoundError" ]
        ELSE [ st EXCEPT !.patients = create(@, row),
                         !.patients_map = @ \cup {pk} ]

\* integrate_observation_data: the data of the ObservationCreate payload
integrate_observation_data(source, concept_id) ==
    ("code_id" :> concept_id) @@ ("subject_id" :> source.subject)
        @@ ("effectiveDatetimeStart" :> source.effectiveDateTime)
        @@ ("effectiveDatetimeEnd" :> source.effectiveDateTime)
        @@ ("valueQuantity" :> source.valueQuantity)
        @@ [ k \in DOMAIN source \ {"subject", "code", "category"} |-> source[k] ]

\* HealthTrackerIntegration.integrate_observation on the state st of a run
integrate_observation(st, external_observation) ==
    LET pk == external_observation.id
        code == external_observation.code
        concept_codes == [ i \in DOMAIN code.coding |-> code.coding[i].code ]
        known == concept_codes \in DOMAIN st.concepts_map
        linked == create_codings(st.codings, code.coding, <<>>)
        created ==
            IF known THEN st
            ELSE [ st EXCEPT
                     !.codings = linked.table,
                     !.concepts =
                         create(@, [ text |-> code.text,
                                     coding |-> Range(linked.links) ]),
                     !.concepts_map =
                         (concept_codes :> NewId(st.concepts)) @@ @ ]
        concept_id == created.concepts_map[concept_codes]
        data == integrate_observation_data(external_observation, concept_id)
        error == model_validate(ObservationModelFields, data)
        row == [ status |-> data.status, issued |-> data.issued,
                 subject_id |-> data.subject_id, code_id |-> data.code_id,
                 value_quantity |-> data.valueQuantity,
                 effective_datetime_start |-> data.effectiveDatetimeStart,
                 effective_datetime_end |-> data.effectiveDatetimeEnd,
                 category_ids |-> {} ]
    IN  IF pk \in st.observations_map \/ code.coding = <<>> THEN st
        ELSE IF data.subject_id \notin created.patients_map THEN created
        ELSE IF error # "" THEN [ created EXCEPT !.error = error ]
        ELSE IF data.subject_id \notin DOMAIN created.patients
        THEN [ created EXCEPT !.error = "HTTPException" ]
        ELSE [ created EXCEPT !.observations = create(@, row) ]

\* the loop of integrate over the external patients: an error ends the run
\* when strict and is logged otherwise
RECURSIVE integrate_patients(_, _, _)
integrate_patients(st, external_patients, strict) ==
    IF external_patients = <<>> THEN st
    ELSE LET done == integrate_patient(st, Head(external_patients))
         IN  IF done.error # "" /\ strict THEN done
             ELSE integrate_patients([ done EXCEPT !.error = "" ],
                                     Tail(external_patients), strict)

\* the loop of integrate over the external observations
RECURSIVE integrate_observations(_, _, _)
integrate_observations(st, external_observations, strict) ==
    IF external_observations = <<>> THEN st
    ELSE LET done == integrate_observation(st, Head(external_observations))
         IN  IF done.error # "" /\ strict THEN done
             ELSE integrate_observations([ done EXCEPT !.error = "" ],
                                         Tail(external_observations), strict)

\* HealthTrackerIntegration.integrate: the store after a run
integrate(external_patients, external_observations, strict) ==
    LET loaded == [ patients |-> patients, codings |-> codings,
                    concepts |-> concepts, observations |-> observations,
                    patients_map |-> DOMAIN patients,
                    concepts_map |-> concepts_map(codings, concepts),
                    observations_map |-> DOMAIN observations,
                    error |-> "" ]
        with_patients == integrate_patients(loaded, external_patients, strict)
    IN  IF with_patients.error # "" THEN with_patients
        ELSE integrate_observations(with_patients, external_observations, strict)

\* one run of the integration (app/integrate.py); the response keeps the
\* external resources of the run
Integrate(external_patients, external_observations, strict) ==
    LET run == integrate(external_patients, external_observations, strict)
        external == [ patients |-> external_patients,
                      observations |-> external_observations ]
    IN  /\ patients' = run.patients
        /\ codings' = run.codings
        /\ concepts' = run.concepts
        /\ observations' = run.observations
        /\ response' =
              IF run.error = ""
              THEN Returned("integrate", NoId, external)
              ELSE [ Raised("integrate", NoId, run.error) EXCEPT
                       !.body = external ]
        /\ UNCHANGED <<settings, requests>>

\* requests of the routes and runs of the integration
IntegrateNext ==
    \/ \E payload \in PatientCreate :
          /\ Cardinality(DOMAIN patients) < MaxCrudPatients
          /\ create_patient(payload)
    \/ \E payload \in CodeableConceptCreate : create_codeable_concept(payload)
    \/ \E payload \in CrudObservationCreate :
          /\ Cardinality(DOMAIN observations) < MaxCrudObservations
          /\ create_observation(payload)
    \/ \E external_patients \in ExternalPatientLists,
          external_observations \in ExternalObservationLists,
          strict \in BOOLEAN :
          Integrate(external_patients, external_observations, strict)

IntegrateSpec == Init /\ [][IntegrateNext]_vars

\* ------------------------------------------- the conclusion on its own
\* aggregate scores 0.00 .. 120.00
ScoreInputs == 0..Float(120)

\* an aggregate score handed to _compose_conclusion
ConclInit ==
    /\ settings \in SettingsChoices
    /\ patients = <<>>
    /\ codings = <<>>
    /\ concepts = <<>>
    /\ observations = <<>>
    /\ requests = <<>>
    /\ response \in { [ NoResponse EXCEPT !.op = "health_score",
                                          !.report.health_score = health_score ] :
                        health_score \in ScoreInputs }

\* _compose_conclusion applied to the aggregate score
ComposeConclusion ==
    /\ response.op = "health_score"
    /\ response' =
          LET conclusion == _compose_conclusion(response.report.health_score)
          IN  [ response EXCEPT
                  !.op = "_compose_conclusion",
                  !.kind = IF conclusion.error = "" THEN "ok" ELSE "error",
                  !.error = conclusion.error,
                  !.report.overall_assessment = conclusion.overall_assessment ]
    /\ UNCHANGED <<settings, patients, codings, concepts, observations, requests>>

NextConclusion == ComposeConclusion

ConclSpec == ConclInit /\ [][NextConclusion]_vars

\* ----------------------------------------------------------- properties
\* the last request was a health score request / returned a report
IsScoreRequest == response.op = "get_health_score"
IsReport == IsScoreRequest /\ response.kind = "report"

\* subject id and window of the last health score request
Subject == CHOOSE p \in response.filters.subject_ids : TRUE

InWindow(o) ==
    /\ response.filters.start = NoTime
         \/ observations[o].effective_datetime_start >= response.filters.start
    /\ response.filters.end = NoTime
         \/ observations[o].effective_datetime_end <= response.filters.end

\* the requested patient's observations inside the requested window
PatientInWindow ==
    { o \in DOMAIN observations :
        observations[o].subject_id = Subject /\ InWindow(o) }

\* the observations of a code: the patient's in-window ones, all stored ones
PatientOfCode(c) == { o \in PatientInWindow : c \in coding(o) }
AllOfCode(c) == { o \in DOMAIN observations : c \in coding(o) }

ValueScores == response.report.metrics.value_scores

\* the z-score of a code as specified: the patient's own mean against the
\* mean and standard deviation of all observations of the code
SpecZScore(c) ==
    Abs(Quot((mean(PatientOfCode(c), value_quantity)
                - mean(AllOfCode(c), value_quantity)) * PREC,
             stdev(AllOfCode(c), value_quantity)))

\* C1: in every report, the z-score of each scored code is
\* |patient_mean - population_mean| / population_stdev with the patient's own
\* in-window mean, so it is > 0 when that mean differs from the combined mean.
C1_ZScoreOfPatientMean ==
    IsReport =>
        \A c \in DOMAIN ValueScores :
            /\ ValueScores[c].z_score = SpecZScore(c)
            /\ mean(PatientOfCode(c), value_quantity)
                   # mean(AllOfCode(c), value_quantity)
                 => ValueScores[c].z_score > 0

\* C2: in every report, each per-indicator score is
\* max(0, 100 - z_score * SERVICE_SCORE_Z_SCALING_FACTOR) for the specified
\* z-score and the configured factor, and lies in [0, 100].
C2_ScoreOfConfiguredFactor ==
    IsReport =>
        \A c \in DOMAIN ValueScores :
            /\ ValueScores[c].score =
                   Max(0, Float(100)
                            - SpecZScore(c) * settings.SERVICE_SCORE_Z_SCALING_FACTOR)
            /\ ValueScores[c].score >= 0
            /\ ValueScores[c].score <= Float(100)

\* the per-indicator scores of the report, and their mean
ReportScores == [ c \in DOMAIN ValueScores |-> ValueScores[c].score ]
MeanOfReportScores == mean(DOMAIN ReportScores, ReportScores)

\* the codes observed by the patient inside the window
ObservedCodes == { c \in Codes : PatientOfCode(c) # {} }

C4_ScoredIffBothHaveTwo ==
    IsReport =>
        \A c \in Codes :
            c \in DOMAIN ValueScores
                <=> /\ Cardinality(PatientOfCode(c)) >= 2
                    /\ Cardinality(AllOfCode(c)) >= 2

\* C5: a health score request for a subject id with no stored patient fails
\* with NotFound and carries no report, whatever observations are stored.
C5_UnknownPatientNotFound ==
    IsScoreRequest /\ Subject \notin DOMAIN patients =>
        /\ response.kind = "error"
        /\ response.error = "HTTPNotFoundError"
        /\ response.report = NoReport

\* an unknown subject was requested while observations are stored
C5_Witness ==
    /\ IsScoreRequest
    /\ Subject \notin DOMAIN patients
    /\ DOMAIN observations # {}
    /\ response.error = "HTTPNotFoundError"

\* C6: a health score request for a stored patient with no observation inside
\* the window fails with a bad request error and carries no report.
C6_EmptyWindowBadRequest ==
    IsScoreRequest /\ Subject \in DOMAIN patients /\ PatientInWindow = {} =>
        /\ response.kind = "error"
        /\ response.error = "HTTPBadRequestError"
        /\ response.report = NoReport

\* the patient has observations, all outside the window, and another patient
\* has observations too
C6_Witness ==
    /\ IsScoreRequest
    /\ Subject \in DOMAIN patients
    /\ PatientInWindow = {}
    /\ \E o \in DOMAIN observations : observations[o].subject_id = Subject
    /\ \E o \in DOMAIN observations : observations[o].subject_id # Subject
    /\ response.error = "HTTPBadRequestError"

\* C7: no report is returned with an empty list of per-indicator scores.
C7_NoReportWithoutScores ==
    IsReport => DOMAIN ValueScores # {}

\* all stored values of the code are equal: its standard deviation is 0
Degenerate(c) ==
    /\ Cardinality(AllOfCode(c)) >= 2
    /\ \A o1, o2 \in AllOfCode(c) :
          observations[o1].value_quantity = observations[o2].value_quantity

\* C8: no report contains a score for a code whose population standard
\* deviation is 0; a request that would score such a code returns no report.
C8_NoScoreOnZeroStdev ==
    /\ IsReport => \A c \in DOMAIN ValueScores : ~Degenerate(c)
    /\ IsScoreRequest /\ Subject \in DOMAIN patients
         /\ (\E c \in ObservedCodes : Degenerate(c))
         => response.kind = "error"

\* a request of a patient observing a code of standard deviation 0 failed
C8_Witness ==
    /\ IsScoreRequest
    /\ Subject \in DOMAIN patients
    /\ \E c \in ObservedCodes : Degenerate(c)
    /\ response.kind = "error"
    /\ response.error = "ZeroDivisionError"

\* the last step applied _compose_conclusion to ConclusionScore
IsConclusion == response.op = "_compose_conclusion"
ConclusionScore == response.report.health_score

C10_ConclusionForEveryScore ==
    IsConclusion /\ ConclusionScore >= 0 /\ ConclusionScore <= Float(100) =>
        /\ response.kind = "ok"
        /\ \E b \in 0..4 : response.report.overall_assessment = assignments_map[b]
        /\ ConclusionScore = Float(100) =>
              response.report.overall_assessment
                  = "Excellent health data quality and consistency."

\* the last request read the observations and computed the statistics: its
\* patient is stored and has observations inside the window
ReachedStatistics ==
    IsScoreRequest /\ Subject \in DOMAIN patients /\ PatientInWindow # {}

\* the two lists the request read, and the observations it pooled
PatientList == patient_observations(response.filters)
OtherList == other_observations(response.filters)
Pooled == PatientList \cup OtherList
PooledOfCode(c) == { o \in Pooled : c \in coding(o) }
Statistics == stats(response.filters)

C12_EntryIffTwoValues ==
    ReachedStatistics =>
        \A c \in Codes :
            /\ c \in DOMAIN Statistics <=> Cardinality(PooledOfCode(c)) >= 2
            /\ Cardinality(PooledOfCode(c)) = 1 => c \notin DOMAIN Statistics
            /\ c \in DOMAIN Statistics =>
                  /\ Statistics[c].count = Cardinality(PooledOfCode(c))
                  /\ Statistics[c].count >= 2

\* statistics with one code of exactly one value (absent) and one code of at
\* least two values (present)
C12_Witness ==
    /\ ReachedStatistics
    /\ \E c \in Codes : Cardinality(PooledOfCode(c)) = 1
    /\ \E c \in Codes : c \in DOMAIN Statistics

\* the buckets of the aggregation of the pooled observations
Buckets == _prepare_observations_values(Pooled)
BucketSizes == [ c \in DOMAIN Buckets |-> Cardinality(Buckets[c]) ]
CodingCounts == [ o \in Pooled |-> Cardinality(coding(o)) ]

\* C13: an observation contributes to the bucket of each coding of its
\* concept and to no other bucket, so the bucket sizes sum to the number of
\* (observation, coding) pairs.  (A bucket holds each observation at most
\* once: the codings of a concept are distinct.)
C13_OncePerCoding ==
    ReachedStatistics =>
        /\ \A o \in Pooled, c \in Codes :
              (c \in DOMAIN Buckets /\ o \in Buckets[c]) <=> c \in coding(o)
        /\ SumOver(DOMAIN Buckets, BucketSizes) = SumOver(Pooled, CodingCounts)

\* a pooled observation of a concept with two codings, next to one of a
\* concept with a single coding
C13_Witness ==
    /\ ReachedStatistics
    /\ \E o \in Pooled : Cardinality(coding(o)) = 2
    /\ \E o \in Pooled : Cardinality(coding(o)) = 1

\* C14: the other observations contain no observation of the requested
\* patient, for every window.
C14_OtherExcludesPatient ==
    ReachedStatistics =>
        \A o \in OtherList : observations[o].subject_id # Subject

\* C15: the patient's in-window observations and the other observations are
\* disjoint and together are all stored observations, so every stored
\* observation is pooled exactly once, whatever the window.
C15_DisjointCover ==
    ReachedStatistics =>
        /\ PatientInWindow \cap OtherList = {}
        /\ PatientInWindow \cup OtherList = DOMAIN observations
        /\ \A c \in DOMAIN Statistics :
              Statistics[c].count = Cardinality(AllOfCode(c))

\* a window that covers part of the patient's observations, with an
\* observation of another patient stored
C15_Witness ==
    /\ ReachedStatistics
    /\ \E o \in DOMAIN observations :
          observations[o].subject_id = Subject /\ o \notin PatientInWindow
    /\ \E o \in DOMAIN observations : observations[o].subject_id # Subject

\* C16: the result references of a report are exactly the observations of the
\* requested patient inside the requested window.
C16_ResultIsPatientInWindow ==
    IsReport => response.report.result = PatientInWindow

\* a report while an observation outside the window or of another patient is
\* stored
C16_Witness ==
    /\ IsReport
    /\ response.report.result # {}
    /\ \E o \in DOMAIN observations : o \notin PatientInWindow

\* C17: every report carries an effective period whose start and end are
\* those of the request filters.
C17_EffectivePeriodOfRequest ==
    IsReport =>
        /\ response.report.effective_period.present
        /\ response.report.effective_period.start = response.filters.start
        /\ response.report.effective_period.end = response.filters.end

Patched(row, payload) ==
    [ k \in DOMAIN row |->
        IF k \in payload.model_fields_set THEN payload.values[k] ELSE row[k] ]

\* C20: an update of a stored patient, codeable concept or observation
\* changes exactly the fields set in the payload (of an observation: its
\* categories too) and leaves every other field and every other stored
\* entity unchanged.  (For a codeable concept: payloads that do not set the
\* nested coding.)
C20_UpdateChangesExactlySetFields ==
    [][ /\ \A pk \in DOMAIN patients, payload \in PatientUpdate :
              update_patient(pk, payload) =>
                  /\ patients' =
                        [ patients EXCEPT ![pk] = Patched(@, payload) ]
                  /\ UNCHANGED <<concepts, observations>>
        /\ \A pk \in DOMAIN concepts, payload \in CodeableConceptUpdate :
              update_codeable_concept(pk, payload)
                /\ "coding" \notin payload.model_fields_set =>
                  /\ concepts' =
                        [ concepts EXCEPT ![pk] = Patched(@, payload) ]
                  /\ UNCHANGED <<patients, observations>>
        /\ \A pk \in DOMAIN observations, payload \in ObservationUpdate :
              update_observation(pk, payload)
                /\ payload.values.code_id \in DOMAIN concepts =>
                  /\ observations' =
                        [ observations EXCEPT ![pk] = Patched(@, payload) ]
                  /\ UNCHANGED <<patients, concepts>>
      ]_vars

\* the error of a request for a row that is not stored
NotFound == "HTTPNotFoundError"

\* C21: get and update of an id that is not stored fail with NotFound; after
\* a successful delete the id is not stored any more, so that get does not
\* return it and the list does not hold it; and an update of a stored
\* observation that names a category id that no concept has fails with
\* NotFound.
C21_NotFoundForUnknownIds ==
    [][ /\ \A pk \in PatientIds \ DOMAIN patients :
              /\ GetPatient(pk) => response'.error = NotFound
              /\ \A payload \in StorePatientUpdate :
                    update_patient(pk, payload) => response'.error = NotFound
        /\ \A pk \in ConceptIds \ DOMAIN concepts :
              /\ GetCodeableConcept(pk) => response'.error = NotFound
              /\ \A payload \in CodeableConceptUpdate :
                    update_codeable_concept(pk, payload)
                        => response'.error = NotFound
        /\ \A pk \in (1..(MaxCrudObservations + 1)) \ DOMAIN observations :
              /\ GetObservation(pk) => response'.error = NotFound
              /\ \A payload \in StoreObservationUpdate :
                    update_observation(pk, payload) => response'.error = NotFound
        /\ \A pk \in DOMAIN patients :
              delete_patient(pk) =>
                  /\ pk \notin DOMAIN patients'
                  /\ \A item \in { PatientRead(patients', i) :
                                     i \in DOMAIN patients' } : item.id # pk
        /\ \A pk \in DOMAIN concepts :
              delete_codeable_concept(pk) => pk \notin DOMAIN concepts'
        /\ \A pk \in DOMAIN observations :
              delete_observation(pk) => pk \notin DOMAIN observations'
        /\ \A pk \in DOMAIN observations, payload \in StoreObservationUpdate :
              /\ update_observation(pk, payload)
              /\ "category_ids" \in payload.model_fields_set
              /\ ~ (payload.values.category_ids \subseteq DOMAIN concepts)
              => response'.error = NotFound
      ]_vars

\* C22: an update of a stored observation whose payload sets category_ids
\* (to stored concepts) leaves the observation with exactly the listed
\* categories; an update whose payload does not set category_ids leaves its
\* categories as they were.
C22_CategoriesReplaced ==
    [][ \A pk \in DOMAIN observations, payload \in StoreObservationUpdate :
            /\ update_observation(pk, payload)
            /\ payload.values.code_id \in DOMAIN concepts
            /\ payload.values.category_ids \subseteq DOMAIN concepts
            => observations'[pk].category_ids =
                   IF "category_ids" \in payload.model_fields_set
                   THEN payload.values.category_ids
                   ELSE observations[pk].category_ids
      ]_vars

Wrote(ops) == response.op \in ops /\ response.kind = "ok"

\* C24: when a create or update of a patient, codeable concept or observation
\* has returned an entity, a get of its id that follows at once returns an
\* equal entity, and a list that follows at once holds it.
C24_ReadAfterWrite ==
    [][ /\ Wrote({"create_patient", "update_patient"}) =>
              /\ GetPatient(response.pk) => response'.body = response.body
              /\ GetPatients => response.body \in response'.body
        /\ Wrote({"create_codeable_concept", "update_codeable_concept"}) =>
              /\ GetCodeableConcept(response.pk) => response'.body = response.body
              /\ GetCodeableConcepts => response.body \in response'.body
        /\ Wrote({"create_observation", "update_observation"}) =>
              /\ GetObservation(response.pk) => response'.body = response.body
              /\ GetObservations => response.body \in response'.body
      ]_vars

\* an observation with a category was created and returned, and a patient
\* has been updated before
C24_Witness ==
    /\ Wrote({"create_observation"})
    /\ response.body.row.category # {}
    /\ \E pk \in DOMAIN patients : patients[pk].name = "n2"

\* C28: a request that ends in an error leaves every stored patient, coding,
\* codeable concept and observation, and every link, as it was before the
\* request; in particular an update_observation that sets fields and
\* category_ids and fails, and an update_codeable_concept that sets text and
\* coding.
C28_ErrorLeavesStore ==
    [][ response'.kind = "error"
            => UNCHANGED <<patients, codings, concepts, observations>> ]_vars

\* an update that set fields of a stored observation and its categories
\* ended in an error
C28_Witness ==
    /\ response.op = "update_observation"
    /\ response.kind = "error"
    /\ response.pk \in DOMAIN observations
    /\ response.error = "AttributeError"
    /\ observations[response.pk].status = "final"

C30_ReportUnlessDocumented ==
    /\ IsScoreRequest
    /\ Subject \in DOMAIN patients
    /\ \E c \in Codes : Cardinality(PatientOfCode(c)) >= 2
    /\ \A c \in ObservedCodes : ~Degenerate(c)
    => IsReport

\* the last request was a run of the integration; its external resources
IsIntegration == response.op = "integrate"
External == response.body

\* an external observation that integrate is to create: it has a coding and
\* its subject is an external patient of the run
Eligible(o) ==
    /\ o.code.coding # <<>>
    /\ \E p \in Range(External.patients) : p.id = o.subject

\* C25: after a run of integrate that was not ended by an error, the store
\* holds a patient for every external patient id and an observation for
\* every eligible external observation id; and a run on the same external
\* resources right after a run adds no patient, concept or observation.
C25_OnePerExternalResource ==
    IsIntegration /\ response.kind = "ok" =>
        /\ \A p \in Range(External.patients) : p.id \in DOMAIN patients
        /\ \A o \in Range(External.observations) :
              Eligible(o) => o.id \in DOMAIN observations

\* no two stored codings have one code
OneCodingPerCode(C) ==
    \A i, j \in DOMAIN C : C[i].code = C[j].code => i = j

\* C27: in every interleaving of create_codeable_concept requests the store
\* holds at most one Coding per code, no stored Coding changes, and a request
\* that creates a concept with a code stored before links the stored Coding
\* (with the system it was stored with) and adds no Coding of that code.
C27_OneCodingPerCode ==
    [][ /\ OneCodingPerCode(codings')
        /\ \A i \in DOMAIN codings :
              i \in DOMAIN codings' /\ codings'[i] = codings[i]
        /\ requests' # requests /\ response'.op = "create_codeable_concept"
              /\ response'.kind = "ok" /\ Len(requests') < Len(requests) =>
              \A c \in response'.body.row.coding :
                 \A i \in DOMAIN codings :
                    codings[i].code = c.row.code =>
                       c.id = i /\ c.row = codings[i] ]_vars

\* every request is done, the last one created a concept, and the two stored
\* concepts link the one stored coding
C27_Witness ==
    /\ requests = <<>>
    /\ Cardinality(DOMAIN concepts) = 2
    /\ Cardinality(DOMAIN codings) = 1
    /\ response.op = "create_codeable_concept" /\ response.kind = "ok"
    /\ \A pk \in DOMAIN concepts : concepts[pk].coding = DOMAIN codings

\* C26: in every interleaving with creates and deletes of observations, a
\* health score request reads the population only after it has read the
\* patient's observations, computes only after both reads, and the two lists
\* it computes from share no observation.
C26_PopulationAfterPatient ==
    /\ \A r \in DOMAIN requests :
          /\ requests[r].pc = "patient_observations" =>
                /\ requests[r].patient_observations = <<>>
                /\ requests[r].other_observations = <<>>
          /\ requests[r].pc = "other_observations" =>
                /\ requests[r].patient_observations # <<>>
                /\ requests[r].other_observations = <<>>
          /\ requests[r].pc = "statistics" =>
                requests[r].patient_observations # <<>>
          /\ DOMAIN requests[r].patient_observations
                \cap DOMAIN requests[r].other_observations = {}
    /\ response.op = "get_health_score" /\ response.kind = "ok" =>
          /\ response.body.patient_observations # <<>>
          /\ DOMAIN response.body.patient_observations
                \cap DOMAIN response.body.other_observations = {}

\* a request has computed from a population that holds an observation of its
\* subject: one that was created between its two reads
C26_Witness ==
    /\ response.op = "get_health_score" /\ response.kind = "ok"
    /\ \E o \in DOMAIN response.body.other_observations :
          response.body.other_observations[o].subject_id
              \in response.filters.subject_ids

=============================================================================
